---- MODULE Spec2Model ----
(***************************************************************************)
(* Model of the portfolio-task-manager backend: the Task and Project       *)
(* collections held by the Store (MongoDB through Mongoose), the request   *)
(* handlers that mutate them (createTask, updateTask, deleteTask,          *)
(* createProject, deleteProject, bulkUpdateTasks, seedDatabase) and the    *)
(* read-only analytics handlers (getDashboardData, generateReport).        *)
(*                                                                         *)
(* The specifications share the variables:                                 *)
(*   Spec      the Store starts empty and the handlers run one request     *)
(*             after the other, the clock advancing in between;            *)
(*   BulkSpec  one bulkUpdateTasks or generateReport request against any   *)
(*             Store content drawn from bounded sets;                      *)
(*   DashSpec  one getDashboardData request against any Store content      *)
(*             drawn from bounded sets.                                    *)
(* PrioritySpec, FeedSpec and RateSpec are DashSpec with the drawn Tasks    *)
(* differing in other fields; ReportSpec is one generateReport request     *)
(* with its data, FailSpec one request during which the Store fails, and   *)
(* FanSpec one getDashboardData request taken aggregate by aggregate.      *)
(* EngineSpec is one request of any handler of the dashboard controller,   *)
(* TimeoutSpec one request taken await by await with the request timeout   *)
(* firing, SkewSpec one getDashboardData request with writes of other      *)
(* requests in between, RollupSpec and ProjectSpec one getDashboardData    *)
(* and one deleteProject request on Stores drawn for them, and SeedSpec    *)
(* concurrent seedDatabase requests.                                       *)
(***************************************************************************)
EXTENDS Integers, Sequences, FiniteSets, TLC

(***************************************************************************)
(* Bounds of the model.                                                    *)
(***************************************************************************)
\* identifiers a request can name, and documents a drawn Store holds
MaxTasks == 2
MaxProjects == 2
\* documents of each collection one behaviour of Spec creates
MaxCreated == 1
\* the clock runs from 0 to MaxTime
MaxTime == 1
\* length of the taskIds array of a bulk request
MaxIds == MaxTasks
\* hours of a drawn Task
MaxHours == 2
\* Tasks of the Store drawn by RateSpec
MaxRated == 3
\* concurrent seedDatabase requests
MaxSeeders == 2

TaskIds == 1..MaxTasks
ProjectIds == 1..MaxProjects
Times == 0..MaxTime

(***************************************************************************)
(* Values.  An optional numeric or date field that is not set is Undefined;*)
(* a Task without a project reference has project = NoProject.             *)
(***************************************************************************)
Undefined == -1
NoProject == 0

Statuses == {"todo", "in-progress", "review", "completed", "cancelled"}
Priorities == {"low", "medium", "high", "urgent"}
DefaultStatus == "todo"
DefaultPriority == "medium"

\* A string that is in neither enum: what a client may send as a payload.
Bogus == "bogus"
\* A missing string field of a request body (undefined; falsy like "").
Missing == ""

\* The values of status and priority that requests are sampled from.
StatusInputs == {"todo", "completed"}
PriorityInputs == {"high"}

BulkOperations == {"update-status", "update-priority", "assign-project", "delete"}
ReportTypes == {"productivity", "project-performance", "time-tracking"}

VARIABLES tasks, projects, nextTaskId, nextProjectId, now, req, res, calls

storeVars == <<tasks, projects, nextTaskId, nextProjectId>>
vars == <<tasks, projects, nextTaskId, nextProjectId, now, req, res, calls>>

(***************************************************************************)
(* Requests, responses and the count of Store calls of the last request.   *)
(***************************************************************************)
NoData ==
  [affectedCount |-> Undefined]

NoRes ==
  [code |-> 0, success |-> FALSE, error |-> "", message |-> "", data |-> NoData]

\* failedCall is the position, among the Store calls of the request, of the
\* one that the Store failed, 0 when every call answered.
\* started and completed are the metric calculators of a getDashboardData
\* whose aggregate was issued, and has answered.
\* awaiting is the await the handler is suspended at, counted from 1, and 0
\* when no handler is suspended; pending is the response the suspended
\* handler sends when the Store answers; thrown counts the calls of
\* res.json that threw because a response had already been sent.
\* locals are the local variables of a suspended getDashboardData: startDate,
\* the date its overdue pipeline was built with, and the results of the
\* aggregates that have answered.
\* seeders are the seedDatabase requests that have arrived, each with the
\* await it is suspended at, its local variables and the code it answered.
\* What is kept of the last request: the handler, the path parameter, and for
\* bulkUpdateTasks the identifier list, the operation and whether the body
\* has an updates object and, in it, the field the operation requires.
NoLocals ==
  [startDate |-> Undefined, pipelineDate |-> Undefined,
   projectStats |-> {}, taskStats |-> <<>>, priorityDistribution |-> {},
   overdueAnalysis |-> {}, projectProgress |-> <<>>, recentActivity |-> <<>>]

NoReq ==
  [kind |-> "none", id |-> 0, taskIdsKind |-> "missing", taskIds |-> <<>>,
   operation |-> Missing, hasUpdates |-> FALSE, hasField |-> FALSE,
   type |-> Missing, format |-> Missing,
   range |-> [from |-> Undefined, to |-> Undefined],
   failedCall |-> 0, started |-> {}, completed |-> {},
   awaiting |-> 0, pending |-> NoRes, thrown |-> 0, locals |-> NoLocals,
   seeders |-> <<>>]

NoCalls == [reads |-> 0, writes |-> 0]

Response(code, error, message) ==
  [code |-> code, success |-> FALSE, error |-> error, message |-> message,
   data |-> NoData]

Success(code, message, data) ==
  [code |-> code, success |-> TRUE, error |-> "", message |-> message,
   data |-> data]

(***************************************************************************)
(* Task documents (models/Task.js).                                        *)
(***************************************************************************)
\* taskSchema.pre('save'): sets completedDate when the status was modified
\* to completed, clears it when the status was modified to anything else.
preSave(doc, statusModified, t) ==
  IF statusModified
    THEN IF doc.status = "completed" /\ doc.completedDate = Undefined
           THEN [doc EXCEPT !.completedDate = t]
           ELSE IF doc.status # "completed"
                  THEN [doc EXCEPT !.completedDate = Undefined]
                  ELSE doc
    ELSE doc

\* new Task(body) followed by save(): schema defaults, the pre-save hook and
\* the timestamps option.  A defaulted status does not count as modified.
NewTask(body, t) ==
  preSave([status         |-> IF body.status = Missing THEN DefaultStatus
                                                       ELSE body.status,
           priority       |-> IF body.priority = Missing THEN DefaultPriority
                                                         ELSE body.priority,
           project        |-> body.project,
           completedDate  |-> body.completedDate,
           estimatedHours |-> body.estimatedHours,
           actualHours    |-> body.actualHours,
           dueDate        |-> body.dueDate,
           updatedAt      |-> t],
          body.status # Missing, t)

\* express-validator rules shared by validateCreateTask and validateUpdateTask:
\* an optional status / priority must be a member of its enum.
ValidEnums(body) ==
  /\ body.status = Missing \/ body.status \in Statuses
  /\ body.priority = Missing \/ body.priority \in Priorities

(***************************************************************************)
(* taskController.js                                                       *)
(***************************************************************************)
\* The bodies the model posts: an optional status and project (priority,
\* completedDate, hours and dueDate are left out of the body).
CreateBodies(t) ==
  [status: StatusInputs \cup {Missing, Bogus},
   priority: {Missing},
   project: {NoProject} \cup ProjectIds,
   completedDate: {Undefined},
   estimatedHours: {Undefined},
   actualHours: {Undefined},
   dueDate: {Undefined}]

CreateTask(body) ==
  /\ nextTaskId <= MaxCreated
  /\ req' = [NoReq EXCEPT !.kind = "createTask"]
  /\ IF ~ValidEnums(body)
       THEN /\ res' = Response(400, "Validation failed", "")
            /\ calls' = NoCalls
            /\ UNCHANGED storeVars
       ELSE IF body.project # NoProject /\ body.project \notin DOMAIN projects
         THEN /\ res' = Response(400, "Invalid project",
                                 "The specified project does not exist")
              /\ calls' = [reads |-> 1, writes |-> 0]
              /\ UNCHANGED storeVars
         ELSE /\ tasks' = [id \in DOMAIN tasks \cup {nextTaskId} |->
                             IF id = nextTaskId THEN NewTask(body, now)
                                                ELSE tasks[id]]
              /\ nextTaskId' = nextTaskId + 1
              /\ res' = Success(201, "Task created successfully", NoData)
              /\ calls' = [reads |-> IF body.project # NoProject THEN 2 ELSE 1,
                           writes |-> 1]
              /\ UNCHANGED <<projects, nextProjectId>>
  /\ UNCHANGED now

\* The fields of an update body; Undefined / Missing mean the field is not
\* in the body, project = NoProject clears the reference (null or '').
EmptyBody ==
  [status |-> Missing, priority |-> Missing, project |-> Undefined,
   completedDate |-> Undefined]

\* The bodies the model puts: one field each.
UpdateBodies(t) ==
  {[EmptyBody EXCEPT !.status = v] : v \in StatusInputs \cup {Bogus}}
  \cup {[EmptyBody EXCEPT !.priority = v] : v \in PriorityInputs}
  \cup {[EmptyBody EXCEPT !.project = v] : v \in {NoProject} \cup ProjectIds}
  \cup {[EmptyBody EXCEPT !.completedDate = t]}

\* Task.findByIdAndUpdate(id, {...req.body}): $set of the body's fields and
\* the updatedAt timestamp; no save middleware runs.
ApplyBody(doc, body, t) ==
  [doc EXCEPT !.status = IF body.status = Missing THEN @ ELSE body.status,
              !.priority = IF body.priority = Missing THEN @ ELSE body.priority,
              !.project = IF body.project = Undefined THEN @ ELSE body.project,
              !.completedDate = IF body.completedDate = Undefined THEN @
                                ELSE body.completedDate,
              !.updatedAt = t]

UpdateTask(id, body) ==
  /\ req' = [NoReq EXCEPT !.kind = "updateTask", !.id = id]
  /\ IF ~ValidEnums(body)
       THEN /\ res' = Response(400, "Validation failed", "")
            /\ calls' = NoCalls
            /\ UNCHANGED storeVars
       ELSE IF body.project \notin {Undefined, NoProject}
               /\ body.project \notin DOMAIN projects
         THEN /\ res' = Response(400, "Invalid project",
                                 "The specified project does not exist")
              /\ calls' = [reads |-> 1, writes |-> 0]
              /\ UNCHANGED storeVars
         ELSE /\ calls' = [reads |-> IF body.project \in ProjectIds THEN 1 ELSE 0,
                           writes |-> 1]
              /\ IF id \in DOMAIN tasks
                   THEN /\ tasks' = [tasks EXCEPT ![id] = ApplyBody(@, body, now)]
                        /\ res' = Success(200, "Task updated successfully", NoData)
                   ELSE /\ res' = Response(404, "Task not found", "")
                        /\ UNCHANGED tasks
              /\ UNCHANGED <<projects, nextTaskId, nextProjectId>>
  /\ UNCHANGED now

DeleteTask(id) ==
  /\ req' = [NoReq EXCEPT !.kind = "deleteTask", !.id = id]
  /\ calls' = [reads |-> 0, writes |-> 1]
  /\ IF id \in DOMAIN tasks
       THEN /\ tasks' = [i \in DOMAIN tasks \ {id} |-> tasks[i]]
            /\ res' = Success(200, "Task deleted successfully", NoData)
       ELSE /\ res' = Response(404, "Task not found", "")
            /\ UNCHANGED tasks
  /\ UNCHANGED <<projects, nextTaskId, nextProjectId, now>>

(***************************************************************************)
(* Project documents (models/Project.js) and the project controller.       *)
(***************************************************************************)
ProjectStatuses == {"planning", "in-progress", "completed", "on-hold", "cancelled"}
DefaultProjectStatus == "planning"
ProjectStatusInputs == {"completed"}

\* projectSchema.pre('save')
projectPreSave(doc, statusModified, t) ==
  IF statusModified
    THEN IF doc.status = "completed" /\ doc.completedDate = Undefined
           THEN [doc EXCEPT !.completedDate = t]
           ELSE IF doc.status # "completed"
                  THEN [doc EXCEPT !.completedDate = Undefined]
                  ELSE doc
    ELSE doc

\* new Project(body) followed by save(); startDate defaults to Date.now.
NewProject(body, t) ==
  projectPreSave([status        |-> IF body.status = Missing
                                      THEN DefaultProjectStatus ELSE body.status,
                  startDate     |-> t,
                  dueDate       |-> Undefined,
                  completedDate |-> Undefined],
                 body.status # Missing, t)

CreateProject(body) ==
  /\ nextProjectId <= MaxCreated
  /\ req' = [NoReq EXCEPT !.kind = "createProject"]
  /\ IF body.status # Missing /\ body.status \notin ProjectStatuses
       THEN /\ res' = Response(400, "Validation failed", "")
            /\ calls' = NoCalls
            /\ UNCHANGED storeVars
       ELSE /\ projects' = [id \in DOMAIN projects \cup {nextProjectId} |->
                              IF id = nextProjectId THEN NewProject(body, now)
                                                    ELSE projects[id]]
            /\ nextProjectId' = nextProjectId + 1
            /\ res' = Success(201, "Project created successfully", NoData)
            /\ calls' = [reads |-> 0, writes |-> 1]
            /\ UNCHANGED <<tasks, nextTaskId>>
  /\ UNCHANGED now

TasksOfProject(id) == {i \in DOMAIN tasks : tasks[i].project = id}

\* deleteProject deleting the tasks of the project whatever deleteTasks is.
DeleteProjectCascading(id, deleteTasks) ==
  /\ req' = [NoReq EXCEPT !.kind = "deleteProject", !.id = id,
                          !.hasUpdates = deleteTasks]
  /\ IF id \notin DOMAIN projects
       THEN /\ res' = Response(404, "Project not found", "")
            /\ calls' = [reads |-> 1, writes |-> 1]
            /\ UNCHANGED storeVars
       ELSE /\ projects' = [i \in DOMAIN projects \ {id} |-> projects[i]]
            /\ tasks' = [i \in DOMAIN tasks \ TasksOfProject(id) |-> tasks[i]]
            /\ res' = Success(200, "Project deleted successfully", NoData)
            /\ calls' = [reads |-> 1, writes |-> 2]
            /\ UNCHANGED <<nextTaskId, nextProjectId>>
  /\ UNCHANGED now

\* deleteProject: 409 when the project has tasks and deleteTasks is not
\* 'true'; 404 when the project does not exist; the tasks are deleted after
\* the project, and only when deleteTasks is 'true'.
DeleteProject(id, deleteTasks) ==
  /\ req' = [NoReq EXCEPT !.kind = "deleteProject", !.id = id,
                          !.hasUpdates = deleteTasks]
  /\ IF TasksOfProject(id) # {} /\ ~deleteTasks
       THEN /\ res' = Response(409, "Project has associated tasks", "")
            /\ calls' = [reads |-> 1, writes |-> 0]
            /\ UNCHANGED storeVars
       ELSE IF id \notin DOMAIN projects
         THEN /\ res' = Response(404, "Project not found", "")
              /\ calls' = [reads |-> 1, writes |-> 1]
              /\ UNCHANGED storeVars
         ELSE /\ projects' = [i \in DOMAIN projects \ {id} |-> projects[i]]
              /\ tasks' = IF deleteTasks
                            THEN [i \in DOMAIN tasks \ TasksOfProject(id) |-> tasks[i]]
                            ELSE tasks
              /\ res' = Success(200, "Project deleted successfully", NoData)
              /\ calls' = [reads |-> 1, writes |-> IF deleteTasks THEN 2 ELSE 1]
              /\ UNCHANGED <<nextTaskId, nextProjectId>>
  /\ UNCHANGED now

(***************************************************************************)
(* seedController.js: seedDatabase, one await after the other.  Several    *)
(* requests may be suspended at the same time.                             *)
(***************************************************************************)
\* The statuses of sampleProjects, in the order of the array.
sampleProjects ==
  <<"in-progress", "planning", "completed", "on-hold", "planning">>

\* const tasksPerProject = 8: the length of every list of taskTemplates.
tasksPerProject == 8

\* A document of sampleProjects as Project.insertMany stores it; the sample
\* dates are fixed dates, written as the instant 0 of the clock.
SampleProject(i) ==
  [status        |-> sampleProjects[i],
   startDate     |-> 0,
   dueDate       |-> 0,
   completedDate |-> IF sampleProjects[i] = "completed" THEN 0 ELSE Undefined]

\* A document of generateSampleTasks with its project set.  The fields the
\* generator draws at random are written with one of their values: the
\* Tasks of a completed Project are completed, the others todo.
SampleTask(project, t) ==
  LET isCompleted == projects[project].status = "completed"
  IN [status         |-> IF isCompleted THEN "completed" ELSE "todo",
      priority       |-> DefaultPriority,
      project        |-> project,
      completedDate  |-> IF isCompleted THEN t ELSE Undefined,
      estimatedHours |-> 4,
      actualHours    |-> IF isCompleted THEN 4 ELSE Undefined,
      dueDate        |-> t,
      updatedAt      |-> t]

\* The request arrives and Project.countDocuments() answers.
SeedBegins ==
  /\ Len(req.seeders) < MaxSeeders
  /\ req' = [req EXCEPT
               !.kind = "seedDatabase",
               !.seeders = Append(@, [awaiting |-> 2,
                                      existingProjects |-> Cardinality(DOMAIN projects),
                                      createdProjects |-> {},
                                      code |-> 0])]
  /\ calls' = [calls EXCEPT !.reads = @ + 1]
  /\ UNCHANGED <<storeVars, now, res>>

\* Task.countDocuments() answers: 400 when either count is positive.
SeedCounts(r) ==
  /\ r \in DOMAIN req.seeders /\ req.seeders[r].awaiting = 2
  /\ calls' = [calls EXCEPT !.reads = @ + 1]
  /\ IF req.seeders[r].existingProjects > 0 \/ Cardinality(DOMAIN tasks) > 0
       THEN /\ req' = [req EXCEPT !.seeders[r].awaiting = 0,
                                  !.seeders[r].code = 400]
            /\ res' = Response(400, "Database already contains data", "")
       ELSE /\ req' = [req EXCEPT !.seeders[r].awaiting = 3]
            /\ UNCHANGED res
  /\ UNCHANGED <<storeVars, now>>

\* Project.insertMany(sampleProjects) answers.
SeedInsertsProjects(r) ==
  /\ r \in DOMAIN req.seeders /\ req.seeders[r].awaiting = 3
  /\ LET created == nextProjectId..(nextProjectId + Len(sampleProjects) - 1)
     IN /\ projects' = [id \in DOMAIN projects \cup created |->
                          IF id \in created
                            THEN SampleProject(id - nextProjectId + 1)
                            ELSE projects[id]]
        /\ nextProjectId' = nextProjectId + Len(sampleProjects)
        /\ req' = [req EXCEPT !.seeders[r].awaiting = 4,
                              !.seeders[r].createdProjects = created]
  /\ calls' = [calls EXCEPT !.writes = @ + 1]
  /\ UNCHANGED <<tasks, nextTaskId, now, res>>

\* Task.insertMany(sampleTasks) answers, tasksPerProject Tasks for each
\* created Project; the statistics are read and the 201 is sent.
SeedInsertsTasks(r) ==
  /\ r \in DOMAIN req.seeders /\ req.seeders[r].awaiting = 4
  /\ LET owners == req.seeders[r].createdProjects
         first == CHOOSE p \in owners : \A q \in owners : p <= q
         count == Cardinality(owners) * tasksPerProject
         created == nextTaskId..(nextTaskId + count - 1)
         owner(id) == first + ((id - nextTaskId) \div tasksPerProject)
     IN /\ tasks' = [id \in DOMAIN tasks \cup created |->
                       IF id \in created THEN SampleTask(owner(id), now)
                                         ELSE tasks[id]]
        /\ nextTaskId' = nextTaskId + count
        /\ res' = Success(201, "Database seeded successfully with sample data",
                          [affectedCount |-> count])
  /\ req' = [req EXCEPT !.seeders[r].awaiting = 0, !.seeders[r].code = 201]
  /\ calls' = [reads |-> calls.reads + 4, writes |-> calls.writes + 1]
  /\ UNCHANGED <<projects, nextProjectId, now>>

(***************************************************************************)
(* dashboardController.js: bulkUpdateTasks                                 *)
(***************************************************************************)
Range(s) == {s[i] : i \in 1..Len(s)}

\* An update that runs the save middleware on the documents it changes.
SetFieldSaving(doc, operation, payload, project, t) ==
  CASE operation = "update-status" ->
         preSave([doc EXCEPT !.status = payload, !.updatedAt = t], TRUE, t)
    [] operation = "update-priority" ->
         [doc EXCEPT !.priority = payload, !.updatedAt = t]
    [] operation = "assign-project" ->
         [doc EXCEPT !.project = project, !.updatedAt = t]

\* The update document of each operation: the named field and updatedAt.
\* Task.updateMany runs neither the save middleware nor the schema
\* validators, so the value is stored as it was sent.
SetField(doc, operation, payload, project, t) ==
  CASE operation = "update-status" ->
         [doc EXCEPT !.status = payload, !.updatedAt = t]
    [] operation = "update-priority" ->
         [doc EXCEPT !.priority = payload, !.updatedAt = t]
    [] operation = "assign-project" ->
         [doc EXCEPT !.project = project, !.updatedAt = t]

\* Task.updateMany({_id: {$in: taskIds}}, update) applied to the documents in
\* done; modifiedCount counts the documents the update changed.
updateMany(coll, done, operation, payload, project, t) ==
  [tasks |-> [id \in DOMAIN coll |->
                IF id \in done
                  THEN SetField(coll[id], operation, payload, project, t)
                  ELSE coll[id]],
   modifiedCount |-> Cardinality({id \in done :
                       SetField(coll[id], operation, payload, project, t) # coll[id]}),
   deletedCount |-> Undefined]

\* Task.deleteMany({_id: {$in: taskIds}}) applied to the documents in done.
deleteMany(coll, done) ==
  [tasks |-> [id \in DOMAIN coll \ done |-> coll[id]],
   modifiedCount |-> Undefined,
   deletedCount |-> Cardinality(done)]

\* result.modifiedCount || result.deletedCount
affectedCount(result) ==
  IF result.modifiedCount \notin {Undefined, 0}
    THEN result.modifiedCount
    ELSE result.deletedCount

\* One Store call per identifier, as a loop over taskIds would make.
batchCallsPerId(taskIds) == Len(taskIds)

\* The number of Store write calls one validated request issues: each case
\* of the switch makes one updateMany or one deleteMany over all of taskIds.
batchCalls(taskIds) == 1

\* !taskIds || !Array.isArray(taskIds) || taskIds.length === 0
InvalidTaskIds(r) == r.taskIdsKind # "array" \/ Len(r.taskIds) = 0

\* The payload field the operation requires is falsy.
FieldMissing(r) ==
  \/ r.operation \in {"update-status", "update-priority"} /\ r.payload = Missing
  \/ r.operation = "assign-project" /\ r.project = NoProject

\* The request reaches its batch call.
PassesValidation(r) ==
  /\ ~InvalidTaskIds(r)
  /\ r.operation \in BulkOperations
  /\ r.operation # "delete" => r.hasUpdates /\ ~FieldMissing(r)

BatchResult(r, done) ==
  IF r.operation = "delete"
    THEN deleteMany(tasks, done)
    ELSE updateMany(tasks, done, r.operation, r.payload, r.project, now)

\* The bodies the model sends to bulkUpdateTasks.
BulkTaskIds ==
  {[taskIdsKind |-> k, taskIds |-> <<>>] : k \in {"missing", "notArray"}}
  \cup {[taskIdsKind |-> "array", taskIds |-> s] :
          s \in UNION {[1..n -> TaskIds] : n \in 0..MaxIds}}

BulkUpdates ==
  {[operation |-> "update-status", hasUpdates |-> TRUE, payload |-> v,
    project |-> NoProject] : v \in StatusInputs \cup {Missing, Bogus}}
  \cup {[operation |-> "update-priority", hasUpdates |-> TRUE, payload |-> v,
         project |-> NoProject] : v \in PriorityInputs \cup {Missing, Bogus}}
  \cup {[operation |-> "assign-project", hasUpdates |-> TRUE, payload |-> Missing,
         project |-> v] : v \in {NoProject} \cup ProjectIds}
  \cup {[operation |-> o, hasUpdates |-> h, payload |-> Missing,
         project |-> NoProject] :
          o \in BulkOperations \cup {Bogus, Missing}, h \in BOOLEAN}

\* The smaller sample Spec sends between its other requests.
SampleTaskIds ==
  {[taskIdsKind |-> "missing", taskIds |-> <<>>]}
  \cup {[taskIdsKind |-> "array", taskIds |-> s] : s \in {<<1>>, <<2, 1>>}}

SampleUpdates ==
  {u \in BulkUpdates :
     \/ u.operation \in {"update-status", "update-priority"}
          /\ u.payload \in {"completed", Bogus}
     \/ u.operation = "assign-project" /\ u.project # NoProject
     \/ u.operation \in {"delete", Bogus} /\ u.hasUpdates}

BulkBody(i, u) ==
  [taskIdsKind |-> i.taskIdsKind, taskIds |-> i.taskIds,
   operation |-> u.operation, hasUpdates |-> u.hasUpdates,
   payload |-> u.payload, project |-> u.project]

BulkRequest(r) ==
  [NoReq EXCEPT !.kind = "bulkUpdateTasks",
                !.taskIdsKind = r.taskIdsKind, !.taskIds = r.taskIds,
                !.operation = r.operation, !.hasUpdates = r.hasUpdates,
                !.hasField = r.hasUpdates /\ ~FieldMissing(r)]

BulkData(r, result) ==
  [affectedCount |-> affectedCount(result)]

\* A default case that does not name the supported operations.
InvalidOperationUnlisted ==
  Response(400, "Invalid operation", "")

\* The 400 of the default case of the switch.
InvalidOperation ==
  Response(400, "Invalid operation",
           "Supported operations: update-status, update-priority, assign-project, delete")

\* The 400 of the taskIds check.
TaskIdsRequired ==
  Response(400, "Validation failed", "taskIds array is required")

\* What the catch block answers when the Store rejects the batch call.
StoreError ==
  Response(500, "Failed to perform bulk update", "store error")

\* bulkUpdateTasks, the Store answering the batch call.
BulkUpdateTasks(r) ==
  /\ req' = BulkRequest(r)
  /\ IF InvalidTaskIds(r)
       THEN /\ res' = TaskIdsRequired
            /\ calls' = NoCalls
            /\ UNCHANGED tasks
       ELSE IF r.operation \notin BulkOperations
         THEN /\ res' = InvalidOperation
              /\ calls' = NoCalls
              /\ UNCHANGED tasks
         ELSE IF r.operation # "delete" /\ ~r.hasUpdates
           \* updates.status on an undefined updates throws a TypeError
           THEN /\ res' = Response(500, "Failed to perform bulk update",
                                   "Cannot read properties of undefined")
                /\ calls' = NoCalls
                /\ UNCHANGED tasks
           ELSE IF FieldMissing(r)
             THEN /\ res' = Response(400,
                      CASE r.operation = "update-status" ->
                             "Status is required for status update"
                        [] r.operation = "update-priority" ->
                             "Priority is required for priority update"
                        [] r.operation = "assign-project" ->
                             "Project is required for project assignment", "")
                  /\ calls' = NoCalls
                  /\ UNCHANGED tasks
             ELSE LET result == BatchResult(r, Range(r.taskIds) \cap DOMAIN tasks)
                  IN /\ tasks' = result.tasks
                     /\ res' = Success(200, "Bulk operation completed successfully",
                                       BulkData(r, result))
                     /\ calls' = [reads |-> 0, writes |-> batchCalls(r.taskIds)]
  /\ UNCHANGED <<projects, nextTaskId, nextProjectId, now>>

\* bulkUpdateTasks, the Store failing during the batch call: a multi-document
\* write is not transactional, the documents in done were already written
\* when the call rejects and the catch block answers 500.
BulkUpdateTasksStoreError(r, done) ==
  /\ PassesValidation(r)
  /\ done \subseteq Range(r.taskIds) \cap DOMAIN tasks
  /\ req' = [BulkRequest(r) EXCEPT !.failedCall = 1]
  /\ tasks' = BatchResult(r, done).tasks
  /\ res' = StoreError
  /\ calls' = [reads |-> 0, writes |-> batchCalls(r.taskIds)]
  /\ UNCHANGED <<projects, nextTaskId, nextProjectId, now>>

(***************************************************************************)
(* Aggregation pipelines: what the stages of the Store compute.             *)
(***************************************************************************)
\* The orders in which an unsorted $group stage may return its buckets.
Orderings(S) ==
  {s \in [1..Cardinality(S) -> S] : \A i, j \in DOMAIN s : i # j => s[i] # s[j]}

\* $sum of a field: a missing value adds nothing.
RECURSIVE Sum(_, _)
Sum(f, S) ==
  IF S = {} THEN 0
  ELSE LET x == CHOOSE x \in S : TRUE
       IN (IF f[x] = Undefined THEN 0 ELSE f[x]) + Sum(f, S \ {x})

\* An exact quotient num / den.
Ratio(num, den) == [num |-> num, den |-> den]

(***************************************************************************)
(* dashboardController.js: generateReport (dispatch on the report type)    *)
(***************************************************************************)
\* The 400 of the default case of the switch.
InvalidReportType ==
  Response(400, "Invalid report type",
           "Available types: productivity, project-performance, time-tracking")

\* The startDate and endDate of the query; Undefined is a bound not given.
NoRange == [from |-> Undefined, to |-> Undefined]

\* {completedDate: dateFilter}: no condition when dateFilter has no key,
\* else a completedDate that is set and within the bounds given.
InRange(date, range) ==
  \/ range = NoRange
  \/ /\ date # Undefined
     /\ range.from = Undefined \/ date >= range.from
     /\ range.to = Undefined \/ date <= range.to

\* A key of a result document with its value, and a document as the
\* sequence of its keys in the order the pipeline lists them.  Only the keys
\* with a numeric value are kept.
Field(key, value) == [key |-> key, value |-> value]

\* null
Null == [num |-> 0, den |-> 0]

\* $week and $year of a date; the clock counts days from the first day of
\* week 0 of year 0, and a missing date gives null.
DaysPerWeek == 7
DaysPerYear == 365
week(date) == IF date = Undefined THEN Undefined ELSE (date % DaysPerYear) \div DaysPerWeek
year(date) == IF date = Undefined THEN Undefined ELSE date \div DaysPerYear

\* productivity: the optional $match, then one group per {week, year} of
\* completedDate.
productivityMatched(range) ==
  {id \in DOMAIN tasks : InRange(tasks[id].completedDate, range)}

productivityKeys(range) ==
  {[week |-> week(tasks[id].completedDate), year |-> year(tasks[id].completedDate)] :
     id \in productivityMatched(range)}

\* {$sort: {'_id.year': 1, '_id.week': 1}}; null sorts before every number.
SortedByYearWeek(order) ==
  \A i, j \in DOMAIN order :
    i < j => \/ order[i].year < order[j].year
             \/ order[i].year = order[j].year /\ order[i].week <= order[j].week

productivityRow(key, range) ==
  LET group == {id \in productivityMatched(range) :
                  /\ week(tasks[id].completedDate) = key.week
                  /\ year(tasks[id].completedDate) = key.year}
      timed == {id \in group : tasks[id].actualHours # Undefined}
      hours == Sum([id \in group |-> tasks[id].actualHours], group)
  IN <<Field("_id", key),
       Field("tasksCompleted", Cardinality(group)),
       Field("totalHours", hours),
       Field("avgHoursPerTask",
             IF timed = {} THEN Null ELSE Ratio(hours, Cardinality(timed)))>>

\* time-tracking: the $match on the existence of both hours (and the date
\* range), then the $project of the variance.
timeTrackingMatched(range) ==
  {id \in DOMAIN tasks :
     /\ tasks[id].estimatedHours # Undefined
     /\ tasks[id].actualHours # Undefined
     /\ InRange(tasks[id].completedDate, range)}

\* $divide raises an error on a zero divisor, and the aggregate rejects.
DivideByZero(range) ==
  \E id \in timeTrackingMatched(range) : tasks[id].estimatedHours = 0

timeTrackingRow(id) ==
  <<Field("_id", id),
    Field("estimatedHours", tasks[id].estimatedHours),
    Field("actualHours", tasks[id].actualHours),
    Field("variance", tasks[id].actualHours - tasks[id].estimatedHours),
    Field("variancePercent",
          Ratio((tasks[id].actualHours - tasks[id].estimatedHours) * 100,
                   tasks[id].estimatedHours))>>

\* project-performance: the $lookup of the Tasks and the $project of their
\* sizes and sums.
projectPerformanceRow(pid) ==
  LET linked == TasksOfProject(pid)
  IN <<Field("_id", pid),
       Field("totalTasks", Cardinality(linked)),
       Field("completedTasks",
             Cardinality({id \in linked : tasks[id].status = "completed"})),
       Field("totalEstimatedHours",
             Sum([id \in linked |-> tasks[id].estimatedHours], linked)),
       Field("totalActualHours",
             Sum([id \in linked |-> tasks[id].actualHours], linked))>>

\* The orders in which the Store may return the documents of a report:
\* sorted for productivity, any order for the other two.
ReportOrders(type, range) ==
  CASE type = "productivity" ->
         {o \in Orderings(productivityKeys(range)) : SortedByYearWeek(o)}
    [] type = "time-tracking" -> Orderings(timeTrackingMatched(range))
    [] type = "project-performance" -> Orderings(DOMAIN projects)
    [] OTHER -> {<<>>}

reportData(type, range, order) ==
  CASE type = "productivity" ->
         [i \in DOMAIN order |-> productivityRow(order[i], range)]
    [] type = "time-tracking" ->
         [i \in DOMAIN order |-> timeTrackingRow(order[i])]
    [] type = "project-performance" ->
         [i \in DOMAIN order |-> projectPerformanceRow(order[i])]
    [] OTHER -> <<>>

\* What separates the lines of a text.
LineBreak == "\n"
\* '\\n': a backslash followed by the letter n.
BackslashN == "\\n"

\* [csvHeaders, ...csvRows].join('\\n')
joinLines(lines) == [lines |-> lines, separator |-> BackslashN]

\* item[header]; a key the item lacks reads undefined, which join renders
\* as nothing, like null.
valueOf(item, header) ==
  LET at == {i \in DOMAIN item : item[i].key = header}
  IN IF at = {} THEN Null ELSE item[CHOOSE i \in at : TRUE].value

\* convertToCSV: '' for no data, else the keys of the first item as header
\* and one line per item with its values under those keys, the fields of a
\* line being joined by commas.  A text is the sequence of its joined parts
\* with what separates them.
convertToCSV(data) ==
  IF Len(data) = 0 THEN [lines |-> <<>>, separator |-> ""]
  ELSE LET headers == [i \in DOMAIN data[1] |-> data[1][i].key]
           csvRows == [r \in DOMAIN data |->
                         [i \in DOMAIN headers |-> valueOf(data[r], headers[i])]]
       IN joinLines(<<headers>> \o csvRows)

\* A catch that answers as if the report were empty.
ReportErrorSwallowed(message) ==
  Success(200, "", [reportType |-> "", data |-> <<>>, recordCount |-> 0])

\* The 500 of the catch of generateReport.
ReportError(message) == Response(500, "Failed to generate report", message)

\* generateReport, the Store answering or its aggregate rejecting the
\* pipeline: range is the startDate and endDate of the query, order the
\* order in which the Store returns the documents.
GenerateReportFor(type, format, range, order) ==
  /\ order \in ReportOrders(type, range)
  /\ req' = [NoReq EXCEPT !.kind = "generateReport", !.type = type,
                          !.format = format, !.range = range,
                          !.failedCall =
                            IF type = "time-tracking" /\ DivideByZero(range)
                              THEN 1 ELSE 0]
  /\ IF type \notin ReportTypes
       THEN /\ res' = InvalidReportType
            /\ calls' = NoCalls
       ELSE /\ calls' = [reads |-> 1, writes |-> 0]
            /\ res' =
                 IF type = "time-tracking" /\ DivideByZero(range)
                   THEN ReportError("can't $divide by zero")
                 ELSE IF format = "csv"
                   THEN Success(200, "",
                          [contentType |-> "text/csv",
                           body |-> convertToCSV(reportData(type, range, order))])
                 ELSE Success(200, "",
                        [reportType |-> type,
                         data |-> reportData(type, range, order),
                         recordCount |-> Len(reportData(type, range, order))])
  /\ UNCHANGED <<storeVars, now>>

\* generateReport, the Store failing the aggregate: the catch answers 500
\* with the message of the error.
GenerateReportStoreError(type, format) ==
  /\ type \in ReportTypes
  /\ req' = [NoReq EXCEPT !.kind = "generateReport", !.type = type,
                          !.format = format, !.failedCall = 1]
  /\ res' = ReportError("store error")
  /\ calls' = [reads |-> 1, writes |-> 0]
  /\ UNCHANGED <<storeVars, now>>

\* generateReport without a date range, the Store returning the documents
\* in one of the orders it may.
GenerateReport(type, format) ==
  GenerateReportFor(type, format, NoRange,
                    CHOOSE o \in ReportOrders(type, NoRange) : TRUE)

(***************************************************************************)
(* dashboardController.js: getDashboardData                                *)
(***************************************************************************)
\* The truth value of a field path in a boolean expression ($and): false
\* for a missing value and for 0.
truthy(value) == value # Undefined /\ value # 0

\* Task.aggregate([{$group: {_id: '$status', count, totalEstimated,
\* totalActual, avgVariance}}]): one bucket per status that some Task has.
\* The $cond of avgVariance yields actualHours - estimatedHours when both are
\* truthy and 0 otherwise, and $avg averages a value of every Task.
taskStatsBucket(st) ==
  LET ids == {id \in DOMAIN tasks : tasks[id].status = st}
      both == {id \in ids : truthy(tasks[id].estimatedHours)
                              /\ truthy(tasks[id].actualHours)}
  IN [_id |-> st,
      count |-> Cardinality(ids),
      totalEstimated |-> Sum([id \in ids |-> tasks[id].estimatedHours], ids),
      totalActual |-> Sum([id \in ids |-> tasks[id].actualHours], ids),
      avgVariance |->
        Ratio(Sum([id \in both |-> tasks[id].actualHours], both)
                - Sum([id \in both |-> tasks[id].estimatedHours], both),
              Cardinality(ids))]

\* Project.aggregate([{$group: {_id: '$status', count, avgDuration}}]).  The
\* $cond of avgDuration yields completedDate - startDate when both dates are
\* set and null otherwise; $avg ignores null and is null when it averages
\* nothing.
projectStatsBucket(st) ==
  LET ids == {id \in DOMAIN projects : projects[id].status = st}
      both == {id \in ids : projects[id].startDate # Undefined
                              /\ projects[id].completedDate # Undefined}
  IN [_id |-> st,
      count |-> Cardinality(ids),
      avgDuration |->
        IF both = {} THEN Null
        ELSE Ratio(Sum([id \in both |-> projects[id].completedDate], both)
                     - Sum([id \in both |-> projects[id].startDate], both),
                   Cardinality(both))]

\* The buckets of projectStats, whatever the order the Store returns them in.
projectStats ==
  {projectStatsBucket(projects[id].status) : id \in DOMAIN projects}

taskStats(order) == [i \in DOMAIN order |-> taskStatsBucket(order[i])]

\* A number: nan is TRUE for NaN, else the value is tenths / 10.
Number(tenths) == [nan |-> FALSE, tenths |-> tenths]
NaN == [nan |-> TRUE, tenths |-> 0]

\* A formatting that drops the digits after the first decimal.
toFixed1Truncating(n, d) ==
  IF d = 0 THEN NaN
  ELSE Number((1000 * n) \div d)

\* ((n / d) * 100).toFixed(1); 0 / 0 is NaN.
toFixed1(n, d) ==
  IF d = 0 THEN NaN
  ELSE Number((2000 * n + d) \div (2 * d))

\* Array.prototype.find over the indices whose element satisfies the
\* callback: the first such index, or 0 (undefined) when there is none.
find(matching) ==
  IF matching = {} THEN 0 ELSE CHOOSE i \in matching : \A j \in matching : i <= j

\* performanceInsights.timeAccuracy: when some bucket has both totals
\* non-zero, the first non-zero totalActual over the first non-zero
\* totalEstimated; else the number 0.
timeAccuracy(stats) ==
  LET both == {i \in DOMAIN stats :
                 stats[i].totalEstimated # 0 /\ stats[i].totalActual # 0}
      act == {i \in DOMAIN stats : stats[i].totalActual # 0}
      est == {i \in DOMAIN stats : stats[i].totalEstimated # 0}
  IN IF find(both) # 0
       THEN toFixed1(stats[find(act)].totalActual, stats[find(est)].totalEstimated)
       ELSE Number(0)

\* performanceInsights.completionRate: the count of the completed bucket
\* (or 0) over the sum of the counts.
completionRate(stats) ==
  LET completed == {i \in DOMAIN stats : stats[i]._id = "completed"}
      done == IF find(completed) # 0 THEN stats[find(completed)].count ELSE 0
      total == Sum([i \in DOMAIN stats |-> stats[i].count], DOMAIN stats)
  IN toFixed1(done, total)

\* A $cond that divides whatever the size of the join is.
progressPercentageUnguarded(totalTasks, completedTasks) ==
  Ratio(completedTasks * 100, totalTasks)

\* projectProgress.progressPercentage: completedTasks / totalTasks * 100 if
\* totalTasks > 0, else 0.
progressPercentage(totalTasks, completedTasks) ==
  IF totalTasks > 0
    THEN Ratio(completedTasks * 100, totalTasks)
    ELSE Ratio(0, 1)

\* A $project whose sizes are taken over every Task, joined or not.
projectProgressRowUnjoined(pid) ==
  LET completed == {id \in DOMAIN tasks : tasks[id].status = "completed"}
  IN [_id |-> pid,
      status |-> projects[pid].status,
      dueDate |-> projects[pid].dueDate,
      totalTasks |-> Cardinality(DOMAIN tasks),
      completedTasks |-> Cardinality(completed),
      progressPercentage |->
        progressPercentage(Cardinality(DOMAIN tasks), Cardinality(completed))]

\* Project.aggregate([$lookup tasks, $project ...]): one row per Project.
projectProgressRow(pid) ==
  LET joined == {id \in DOMAIN tasks : tasks[id].project = pid}
      completed == {id \in joined : tasks[id].status = "completed"}
  IN [_id |-> pid,
      status |-> projects[pid].status,
      dueDate |-> projects[pid].dueDate,
      totalTasks |-> Cardinality(joined),
      completedTasks |-> Cardinality(completed),
      progressPercentage |->
        progressPercentage(Cardinality(joined), Cardinality(completed))]

\* {$sort: {dueDate: 1}}: ascending, a missing dueDate first, ties in any
\* order.
SortedByDueDate(order) ==
  \A i, j \in DOMAIN order :
    i < j => projects[order[i]].dueDate <= projects[order[j]].dueDate

projectProgress(order) == [i \in DOMAIN order |-> projectProgressRow(order[i])]

\* Priority distribution, first $group: one cell per (priority, status)
\* that some Task has, with the number of those Tasks.
priorityCells ==
  {[priority |-> tasks[id].priority, status |-> tasks[id].status,
    count |-> Cardinality({o \in DOMAIN tasks :
                             /\ tasks[o].priority = tasks[id].priority
                             /\ tasks[o].status = tasks[id].status})] :
     id \in DOMAIN tasks}

\* A second $group whose total counts the cells ($sum: 1).
priorityRowCountingCells(priority) ==
  LET cells == {c \in priorityCells : c.priority = priority}
  IN [_id |-> priority,
      statusBreakdown |-> {[status |-> c.status, count |-> c.count] : c \in cells},
      total |-> Cardinality(cells)]

\* Second $group, by priority: the cells pushed into statusBreakdown and
\* total, the $sum of their counts.
priorityRow(priority) ==
  LET cells == {c \in priorityCells : c.priority = priority}
  IN [_id |-> priority,
      statusBreakdown |-> {[status |-> c.status, count |-> c.count] : c \in cells},
      total |-> Sum([c \in cells |-> c.count], cells)]

\* The rows of a $group come in no particular order: a set.
priorityDistribution == {priorityRow(c.priority) : c \in priorityCells}

\* Overdue analysis, $match: dueDate before the instant `at` (a Task
\* without dueDate never compares below a date) and status neither
\* completed nor cancelled.
overdue(at) ==
  {id \in DOMAIN tasks :
     /\ tasks[id].dueDate # Undefined
     /\ tasks[id].dueDate < at
     /\ tasks[id].status \notin {"completed", "cancelled"}}

\* An age taken as dueDate - now.
overdueAgeReversed(id, at) == tasks[id].dueDate - at

\* {$subtract: [new Date(), '$dueDate']} over the length of a day; the clock
\* of the model counts days.
overdueAge(id, at) == at - tasks[id].dueDate

\* Overdue analysis, $group by priority: `filterAt` and `ageAt` are the two
\* readings of the clock (lines 119 and 130).
overdueAnalysis(filterAt, ageAt) ==
  {LET bucket == {o \in overdue(filterAt) : tasks[o].priority = tasks[id].priority}
   IN [_id |-> tasks[id].priority,
       count |-> Cardinality(bucket),
       avgOverdueDays |->
         Ratio(Sum([o \in bucket |-> overdueAge(o, ageAt)], bucket),
               Cardinality(bucket))] :
     id \in overdue(filterAt)}

\* A value that may be absent from a document: a name is the _id of the
\* Project that carries it, 0 is the empty string.
Absent == [defined |-> FALSE, name |-> 0]
Name(n) == [defined |-> TRUE, name |-> n]

\* {$limit: 20}
FeedLimit == 20
\* const { days = 30 } = req.query
DefaultDays == 30

\* Recent activity, $match: updatedAt not before startDate.
recentlyUpdated(startDate) ==
  {id \in DOMAIN tasks : tasks[id].updatedAt >= startDate}

\* {$sort: {updatedAt: -1}}: descending, ties in any order.
SortedByUpdatedAtDesc(order) ==
  \A i, j \in DOMAIN order :
    i < j => tasks[order[i]].updatedAt >= tasks[order[j]].updatedAt

\* $lookup of the Project and $arrayElemAt ['$projectInfo.name', 0]: the
\* name of the referenced Project, and no field at all when the join is
\* empty.
projectName(id) ==
  IF tasks[id].project \in DOMAIN projects
    THEN Name(tasks[id].project)
    ELSE Absent

recentActivity(order) ==
  [i \in 1..(IF Len(order) < FeedLimit THEN Len(order) ELSE FeedLimit) |->
     [_id |-> order[i],
      status |-> tasks[order[i]].status,
      priority |-> tasks[order[i]].priority,
      updatedAt |-> tasks[order[i]].updatedAt,
      projectName |-> projectName(order[i])]]

\* The number of Store calls of a getDashboardData that answers: seven
\* aggregate and three countDocuments.
DashboardCalls == 10

\* The metric calculators of getDashboardData: the seven aggregates.
Calculators ==
  {"projectStats", "taskStats", "productivityMetrics", "priorityDistribution",
   "overdueAnalysis", "projectProgress", "recentActivity"}

\* The awaits of the handler in their order, each with the aggregates it
\* issues: Promise.all of the first two, then one aggregate per await.
Awaited ==
  <<{"projectStats", "taskStats"}, {"productivityMetrics"},
    {"priorityDistribution"}, {"overdueAnalysis"}, {"projectProgress"},
    {"recentActivity"}>>

\* overview: the three countDocuments, the clock reading `at` when the last
\* is built, and the completion rate computed from taskStats.
overview(stats, at) ==
  [totalProjects |-> Cardinality(DOMAIN projects),
   totalTasks |-> Cardinality(DOMAIN tasks),
   overdueCount |-> Cardinality(overdue(at)),
   completionRate |-> completionRate(stats)]

\* The data of the 200 response, from the local variables of the handler
\* and the Store as it is when the handler counts the documents.
DashboardDataOf(locals, days, at) ==
  [overview |-> overview(locals.taskStats, at),
   projectStats |-> locals.projectStats,
   taskStats |-> locals.taskStats,
   priorityDistribution |-> locals.priorityDistribution,
   overdueAnalysis |-> locals.overdueAnalysis,
   projectProgress |-> locals.projectProgress,
   recentActivity |-> locals.recentActivity,
   performanceInsights |->
     [timeAccuracy |-> timeAccuracy(locals.taskStats),
      completionRate |-> completionRate(locals.taskStats)],
   timeRange |-> [startDate |-> locals.startDate - days, days |-> days]]

\* The data of the 200 response.  statusOrder and projectOrder are the
\* orders in which the Store returns the buckets of taskStats and the rows
\* of projectProgress, feedOrder the order in which it sorts the Tasks of
\* the activity feed; days is the query parameter and lag the time the clock
\* advances between its two readings of the overdue analysis.
DashboardData(statusOrder, projectOrder, feedOrder, days, lag) ==
  DashboardDataOf([startDate |-> now, pipelineDate |-> now,
                   projectStats |-> projectStats,
                   taskStats |-> taskStats(statusOrder),
                   priorityDistribution |-> priorityDistribution,
                   overdueAnalysis |-> overdueAnalysis(now, now + lag),
                   projectProgress |-> projectProgress(projectOrder),
                   recentActivity |-> recentActivity(feedOrder)],
                  days, now + lag)

\* getDashboardData stamping the Tasks it lists as viewed.
GetDashboardDataForTouching(statusOrder, projectOrder, feedOrder, days, lag) ==
  /\ SortedByDueDate(projectOrder)
  /\ SortedByUpdatedAtDesc(feedOrder)
  /\ req' = [NoReq EXCEPT !.kind = "getDashboardData",
                          !.started = Calculators, !.completed = Calculators]
  /\ res' = Success(200, "",
                    DashboardData(statusOrder, projectOrder, feedOrder, days, lag))
  /\ calls' = [reads |-> DashboardCalls, writes |-> 0]
  /\ now' = now + lag
  /\ tasks' = [id \in DOMAIN tasks |->
                 IF id \in Range(feedOrder)
                   THEN [tasks[id] EXCEPT !.updatedAt = now] ELSE tasks[id]]
  /\ UNCHANGED <<projects, nextTaskId, nextProjectId>>

\* getDashboardData from the request to the response, every Store call
\* answering.
GetDashboardDataFor(statusOrder, projectOrder, feedOrder, days, lag) ==
  /\ SortedByDueDate(projectOrder)
  /\ SortedByUpdatedAtDesc(feedOrder)
  /\ req' = [NoReq EXCEPT !.kind = "getDashboardData",
                          !.started = Calculators, !.completed = Calculators]
  /\ res' = Success(200, "",
                    DashboardData(statusOrder, projectOrder, feedOrder, days, lag))
  /\ calls' = [reads |-> DashboardCalls, writes |-> 0]
  /\ now' = now + lag
  /\ UNCHANGED storeVars

\* The 500 of the catch of getDashboardData.
DashboardError(message) == Response(500, "Failed to fetch dashboard data", message)

\* getDashboardData, the Store failing its failing-th call.  The first two
\* aggregates are issued together (Promise.all), every later call after the
\* one before it answered: the calls issued are those up to the failing one,
\* and the second when the first fails.  The catch answers 500.
GetDashboardDataStoreError(failing) ==
  /\ failing \in 1..DashboardCalls
  /\ req' = [NoReq EXCEPT !.kind = "getDashboardData", !.failedCall = failing]
  /\ res' = DashboardError("store error")
  /\ calls' = [reads |-> IF failing < 2 THEN 2 ELSE failing, writes |-> 0]
  /\ UNCHANGED <<storeVars, now>>

\* getDashboardData step by step.  The handler enters and issues the
\* aggregates of its first await.
DashboardBegins ==
  /\ req' = [NoReq EXCEPT !.kind = "getDashboardData", !.started = Awaited[1],
                          !.awaiting = 1, !.locals.startDate = now]
  /\ calls' = [reads |-> Cardinality(Awaited[1]), writes |-> 0]
  /\ UNCHANGED <<storeVars, now, res>>

\* The result of an aggregate on the Store as it is, the overdue pipeline
\* carrying the date it was built with.
calculated(calculator, locals, statusOrder, projectOrder, feedOrder) ==
  CASE calculator = "projectStats" -> projectStats
    [] calculator = "taskStats" -> taskStats(statusOrder)
    [] calculator = "priorityDistribution" -> priorityDistribution
    [] calculator = "overdueAnalysis" ->
         overdueAnalysis(locals.pipelineDate, locals.pipelineDate)
    [] calculator = "projectProgress" -> projectProgress(projectOrder)
    [] calculator = "recentActivity" -> recentActivity(feedOrder)

\* The Store answers an aggregate that is in flight, with what the
\* collections hold at that moment.
CalculatorCompletes(calculator, statusOrder, projectOrder, feedOrder) ==
  /\ req.kind = "getDashboardData" /\ req.awaiting > 0
  /\ calculator \in req.started \ req.completed
  /\ SortedByDueDate(projectOrder)
  /\ SortedByUpdatedAtDesc(feedOrder)
  /\ req' = [req EXCEPT
               !.completed = @ \cup {calculator},
               !.locals = IF calculator \in DOMAIN NoLocals
                            THEN [@ EXCEPT ![calculator] =
                                    calculated(calculator, req.locals, statusOrder,
                                               projectOrder, feedOrder)]
                            ELSE @]
  /\ UNCHANGED <<storeVars, now, res, calls>>

\* Every aggregate of the await the handler is suspended at has answered:
\* it resumes and issues the aggregates of its next await.
DashboardResumes(step) ==
  /\ req.kind = "getDashboardData" /\ req.awaiting > 0
  /\ step \in 2..Len(Awaited)
  /\ req.started = UNION {Awaited[i] : i \in 1..(step - 1)}
  /\ req.completed = req.started
  /\ req' = [req EXCEPT
               !.started = @ \cup Awaited[step], !.awaiting = step,
               !.locals.pipelineDate = IF "overdueAnalysis" \in Awaited[step]
                                         THEN now ELSE @]
  /\ calls' = [calls EXCEPT !.reads = @ + Cardinality(Awaited[step])]
  /\ UNCHANGED <<storeVars, now, res>>

\* A response was sent for the request (res.headersSent).
headersSent == res # NoRes

\* res.json sending whatever was sent before.
jsonUnguarded(body) == body

\* res.status(code).json(body): the response of the request after the call.
\* The body is sent unless a response was sent before, when setting the
\* headers throws ERR_HTTP_HEADERS_SENT and nothing is sent.
json(body) == IF headersSent THEN res ELSE body

\* What a handler whose try block calls res.json has thrown when it
\* returns: the call of the try block and the one of the catch block it
\* lands in both throw once a response was sent, none otherwise.
thrownByHandler == IF headersSent THEN 2 ELSE 0

\* The last await has answered: the handler computes performanceInsights,
\* counts the documents and sends the response.
DashboardResponds ==
  /\ req.kind = "getDashboardData" /\ req.awaiting > 0
  /\ req.started = UNION {Awaited[i] : i \in DOMAIN Awaited}
  /\ req.completed = req.started
  /\ res' = json(Success(200, "", DashboardDataOf(req.locals, DefaultDays, now)))
  /\ req' = [req EXCEPT !.awaiting = 0, !.thrown = thrownByHandler]
  /\ calls' = [reads |-> DashboardCalls, writes |-> 0]
  /\ UNCHANGED <<storeVars, now>>

\* The Store fails an aggregate that is in flight: the await throws, the
\* catch block answers 500 and the handler returns.
DashboardFails(calculator) ==
  /\ req.kind = "getDashboardData" /\ req.awaiting > 0
  /\ calculator \in req.started \ req.completed
  /\ res' = json(DashboardError("store error"))
  /\ req' = [req EXCEPT !.awaiting = 0, !.failedCall = calls.reads,
                        !.thrown = IF headersSent THEN 1 ELSE 0]
  /\ UNCHANGED <<storeVars, now, calls>>

\* globalErrorHandler: the response to an error passed to next().
globalErrorHandler(statusCode, message) ==
  Response(IF statusCode = Undefined THEN 500 ELSE statusCode,
           IF message = "" THEN "Internal Server Error" ELSE message, "")

\* The timeout set by requestTimeout fires: the socket was idle for the
\* timeout while a handler awaits the Store and no response was sent.  The
\* callback passes a 408 error to next(), which reaches globalErrorHandler;
\* the handler stays suspended at its await.
RequestTimeout ==
  /\ req.awaiting > 0
  /\ ~headersSent
  /\ res' = json(globalErrorHandler(408, "Request timeout"))
  /\ UNCHANGED <<storeVars, now, req, calls>>

\* bulkUpdateTasks step by step.  A validated request issues its batch call
\* and the handler is suspended at the await; the Store writes the documents
\* in done and then answers, or fails the call.
BulkAwaits(r, done, failed) ==
  /\ PassesValidation(r)
  /\ done \subseteq Range(r.taskIds) \cap DOMAIN tasks
  /\ ~failed => done = Range(r.taskIds) \cap DOMAIN tasks
  /\ req' = [BulkRequest(r) EXCEPT
               !.awaiting = 1,
               !.failedCall = IF failed THEN 1 ELSE 0,
               !.pending = IF failed THEN StoreError
                           ELSE Success(200, "Bulk operation completed successfully",
                                        BulkData(r, BatchResult(r, done)))]
  /\ tasks' = BatchResult(r, done).tasks
  /\ calls' = [reads |-> 0, writes |-> batchCalls(r.taskIds)]
  /\ UNCHANGED <<projects, nextTaskId, nextProjectId, now, res>>

\* The batch call has settled: the handler resumes and sends the 200, or
\* lands in the catch block and sends the 500.
BulkResumes ==
  /\ req.kind = "bulkUpdateTasks" /\ req.awaiting > 0
  /\ res' = json(req.pending)
  /\ req' = [req EXCEPT !.awaiting = 0, !.pending = NoRes,
                        !.thrown = IF req.failedCall > 0 /\ headersSent
                                     THEN 1 ELSE thrownByHandler]
  /\ UNCHANGED <<storeVars, now, calls>>

\* The batch call of a bulkUpdateTasks request of another client reaches the
\* Store while the getDashboardData request is suspended at an await.
InterleavedBulkUpdate(r) ==
  /\ req.kind = "getDashboardData" /\ req.awaiting > 0
  /\ PassesValidation(r)
  /\ tasks' = BatchResult(r, Range(r.taskIds) \cap DOMAIN tasks).tasks
  /\ UNCHANGED <<projects, nextTaskId, nextProjectId, now, req, res, calls>>

\* The feed orders of a request with the given days.
FeedOrders(days) ==
  {o \in Orderings(recentlyUpdated(now - days)) : SortedByUpdatedAtDesc(o)}

\* getDashboardData with the default days, the clock standing still and the
\* Store sorting the feed in one of the orders it may.
GetDashboardData(statusOrder, projectOrder) ==
  GetDashboardDataFor(statusOrder, projectOrder,
                      CHOOSE o \in FeedOrders(DefaultDays) : TRUE, DefaultDays, 0)

(***************************************************************************)
(* The clock read by new Date().                                           *)
(***************************************************************************)
Tick ==
  /\ now < MaxTime
  /\ now' = now + 1
  /\ UNCHANGED <<storeVars, req, res, calls>>

(***************************************************************************)
(* Spec: the Store starts empty, requests are handled one after the other. *)
(***************************************************************************)
Init ==
  /\ tasks = <<>>
  /\ projects = <<>>
  /\ nextTaskId = 1
  /\ nextProjectId = 1
  /\ now = 0
  /\ req = NoReq
  /\ res = NoRes
  /\ calls = NoCalls

Next ==
  \/ \E body \in CreateBodies(now) : CreateTask(body)
  \/ \E id \in TaskIds, body \in UpdateBodies(now) : UpdateTask(id, body)
  \/ \E id \in TaskIds : DeleteTask(id)
  \/ \E body \in [status: ProjectStatusInputs \cup {Missing, Bogus}] : CreateProject(body)
  \/ \E id \in ProjectIds, deleteTasks \in BOOLEAN : DeleteProject(id, deleteTasks)
  \/ \E i \in SampleTaskIds, u \in SampleUpdates : BulkUpdateTasks(BulkBody(i, u))
  \/ \E i \in SampleTaskIds, u \in SampleUpdates, done \in SUBSET TaskIds :
       BulkUpdateTasksStoreError(BulkBody(i, u), done)
  \/ \E type \in ReportTypes \cup {Bogus}, format \in {"json", "csv"} :
       GenerateReport(type, format)
  \/ Tick

Spec == Init /\ [][Next]_vars

(***************************************************************************)
(* BulkSpec: one bulkUpdateTasks or generateReport request against a drawn *)
(* Store.  The drawn documents are ones createTask and updateTask leave:   *)
(* enum members, references to existing Projects, completedDate set on the *)
(* completed ones; the Store was last written before the instant of the    *)
(* request.                                                                *)
(***************************************************************************)
DrawnTasks ==
  {d \in [status: StatusInputs,
          priority: {DefaultPriority},
          project: {NoProject},
          completedDate: {Undefined} \cup Times,
          estimatedHours: {Undefined},
          actualHours: {Undefined},
          dueDate: {Undefined},
          updatedAt: Times] :
     /\ (d.completedDate # Undefined) <=> (d.status = "completed")
     /\ d.completedDate <= d.updatedAt}

DrawnProjects ==
  [status: {DefaultProjectStatus}, startDate: {0}, dueDate: {Undefined},
   completedDate: {Undefined}]

DrawnStore(docs) ==
  /\ \E present \in SUBSET ProjectIds : projects \in [present -> DrawnProjects]
  /\ \E present \in SUBSET TaskIds : tasks \in [present -> docs]
  /\ \A id \in DOMAIN tasks :
        /\ tasks[id].project \in {NoProject} \cup DOMAIN projects
        /\ tasks[id].updatedAt < now
  /\ nextTaskId = MaxTasks + 1
  /\ nextProjectId = MaxProjects + 1

BulkInit ==
  /\ now = MaxTime
  /\ DrawnStore(DrawnTasks)
  /\ req = NoReq
  /\ res = NoRes
  /\ calls = NoCalls

\* No request was handled yet.
Fresh == req = NoReq

BulkNext ==
  \/ Fresh /\ \E i \in BulkTaskIds, u \in BulkUpdates :
                BulkUpdateTasks(BulkBody(i, u))
  \/ Fresh /\ \E i \in BulkTaskIds, u \in BulkUpdates, done \in SUBSET TaskIds :
                BulkUpdateTasksStoreError(BulkBody(i, u), done)
  \/ Fresh /\ \E type \in ReportTypes \cup {Bogus}, format \in {"json", "csv"} :
                GenerateReport(type, format)

BulkSpec == BulkInit /\ [][BulkNext]_vars

(***************************************************************************)
(* DashSpec: one getDashboardData request against a drawn Store whose      *)
(* Tasks carry hours and Project references.                               *)
(***************************************************************************)
\* (estimatedHours, actualHours) of the drawn Tasks
DrawnHours ==
  {<<Undefined, Undefined>>, <<0, 1>>, <<1, MaxHours>>}

DashTasks ==
  {d \in [status: StatusInputs,
          priority: {DefaultPriority},
          project: {NoProject} \cup ProjectIds,
          completedDate: {Undefined, 0},
          estimatedHours: {Undefined} \cup 0..MaxHours,
          actualHours: {Undefined} \cup 0..MaxHours,
          dueDate: {Undefined},
          updatedAt: {0}] :
     /\ (d.completedDate # Undefined) <=> (d.status = "completed")
     /\ <<d.estimatedHours, d.actualHours>> \in DrawnHours}

DashInit ==
  /\ now = MaxTime
  /\ DrawnStore(DashTasks)
  /\ req = NoReq
  /\ res = NoRes
  /\ calls = NoCalls

DashNext ==
  Fresh /\ \E statusOrder \in Orderings({tasks[id].status : id \in DOMAIN tasks}),
              projectOrder \in Orderings(DOMAIN projects) :
             GetDashboardData(statusOrder, projectOrder)

DashSpec == DashInit /\ [][DashNext]_vars

(***************************************************************************)
(* PrioritySpec: one getDashboardData request against a drawn Store whose  *)
(* Tasks differ in status, priority and dueDate; the clock may advance     *)
(* while the request is handled.                                           *)
(***************************************************************************)
PriorityTasks ==
  {d \in [status: StatusInputs,
          priority: {DefaultPriority} \cup PriorityInputs,
          project: {NoProject},
          completedDate: {Undefined, 0},
          estimatedHours: {Undefined},
          actualHours: {Undefined},
          dueDate: {Undefined} \cup Times,
          updatedAt: {0}] :
     (d.completedDate # Undefined) <=> (d.status = "completed")}

PriorityInit ==
  /\ now = MaxTime
  /\ projects = <<>>
  /\ \E present \in SUBSET TaskIds : tasks \in [present -> PriorityTasks]
  /\ nextTaskId = MaxTasks + 1
  /\ nextProjectId = MaxProjects + 1
  /\ req = NoReq
  /\ res = NoRes
  /\ calls = NoCalls

PriorityNext ==
  Fresh /\ \E statusOrder \in Orderings({tasks[id].status : id \in DOMAIN tasks}),
              lag \in 0..1 :
             GetDashboardDataFor(statusOrder, <<>>,
                                 CHOOSE o \in FeedOrders(DefaultDays) : TRUE,
                                 DefaultDays, lag)

PrioritySpec == PriorityInit /\ [][PriorityNext]_vars

(***************************************************************************)
(* FeedSpec: one getDashboardData request against a drawn Store whose      *)
(* Tasks differ in updatedAt and in the Project they reference, which may  *)
(* be none or one that is not stored (bulkUpdateTasks assign-project       *)
(* stores any reference).                                                  *)
(***************************************************************************)
FeedTasks ==
  [status: {DefaultStatus},
   priority: {DefaultPriority},
   project: {NoProject} \cup ProjectIds,
   completedDate: {Undefined},
   estimatedHours: {Undefined},
   actualHours: {Undefined},
   dueDate: {Undefined},
   updatedAt: Times]

FeedInit ==
  /\ now = MaxTime
  /\ \E present \in SUBSET ProjectIds : projects \in [present -> DrawnProjects]
  /\ \E present \in SUBSET TaskIds : tasks \in [present -> FeedTasks]
  /\ nextTaskId = MaxTasks + 1
  /\ nextProjectId = MaxProjects + 1
  /\ req = NoReq
  /\ res = NoRes
  /\ calls = NoCalls

FeedNext ==
  Fresh /\ \E days \in {0, DefaultDays} :
             \E statusOrder \in Orderings({tasks[id].status : id \in DOMAIN tasks}),
                projectOrder \in Orderings(DOMAIN projects),
                feedOrder \in FeedOrders(days) :
               GetDashboardDataFor(statusOrder, projectOrder, feedOrder, days, 0)

FeedSpec == FeedInit /\ [][FeedNext]_vars

(***************************************************************************)
(* RateSpec: one getDashboardData request against a drawn Store of up to   *)
(* MaxRated Tasks that differ in status only.                              *)
(***************************************************************************)
RatedTasks ==
  {d \in [status: Statuses,
          priority: {DefaultPriority},
          project: {NoProject},
          completedDate: {Undefined, 0},
          estimatedHours: {Undefined},
          actualHours: {Undefined},
          dueDate: {Undefined},
          updatedAt: {0}] :
     (d.completedDate # Undefined) <=> (d.status = "completed")}

RateInit ==
  /\ now = MaxTime
  /\ projects = <<>>
  /\ \E present \in SUBSET (1..MaxRated) : tasks \in [present -> RatedTasks]
  /\ nextTaskId = MaxRated + 1
  /\ nextProjectId = 1
  /\ req = NoReq
  /\ res = NoRes
  /\ calls = NoCalls

RateNext ==
  Fresh /\ \E statusOrder \in Orderings({tasks[id].status : id \in DOMAIN tasks}) :
             GetDashboardData(statusOrder, <<>>)

RateSpec == RateInit /\ [][RateNext]_vars

(***************************************************************************)
(* ReportSpec: one generateReport request against a drawn Store whose      *)
(* Tasks differ in their hours and in completedDate, which falls in week 0 *)
(* or in week 1.                                                           *)
(***************************************************************************)
ReportTasks ==
  {d \in [status: StatusInputs,
          priority: {DefaultPriority},
          project: {NoProject},
          completedDate: {Undefined, 0, DaysPerWeek},
          estimatedHours: {Undefined} \cup 0..MaxHours,
          actualHours: {Undefined} \cup 0..MaxHours,
          dueDate: {Undefined},
          updatedAt: {0, DaysPerWeek}] :
     /\ (d.completedDate # Undefined) <=> (d.status = "completed")
     /\ d.updatedAt = (IF d.completedDate = Undefined THEN 0 ELSE d.completedDate)
     /\ <<d.estimatedHours, d.actualHours>> \in DrawnHours}

\* The date ranges the model asks reports for.
RangeInputs ==
  {NoRange, [from |-> 0, to |-> Undefined], [from |-> DaysPerWeek, to |-> DaysPerWeek]}

ReportInit ==
  /\ now = DaysPerWeek
  /\ \E present \in SUBSET {1} : projects \in [present -> DrawnProjects]
  /\ \E present \in SUBSET TaskIds : tasks \in [present -> ReportTasks]
  /\ nextTaskId = MaxTasks + 1
  /\ nextProjectId = MaxProjects + 1
  /\ req = NoReq
  /\ res = NoRes
  /\ calls = NoCalls

ReportNext ==
  Fresh /\ \E type \in ReportTypes \cup {Bogus}, format \in {"json", "csv"},
              range \in RangeInputs :
             \E order \in ReportOrders(type, range) :
               GenerateReportFor(type, format, range, order)

ReportSpec == ReportInit /\ [][ReportNext]_vars

(***************************************************************************)
(* FailSpec: one request of bulkUpdateTasks, generateReport or             *)
(* getDashboardData against a drawn Store that fails one of its calls.     *)
(***************************************************************************)
FailNext ==
  \/ Fresh /\ \E i \in SampleTaskIds, u \in BulkUpdates, done \in SUBSET TaskIds :
                BulkUpdateTasksStoreError(BulkBody(i, u), done)
  \/ Fresh /\ \E type \in ReportTypes, format \in {"json", "csv"} :
                GenerateReportStoreError(type, format)
  \/ Fresh /\ \E failing \in 1..DashboardCalls :
                GetDashboardDataStoreError(failing)

FailSpec == BulkInit /\ [][FailNext]_vars

(***************************************************************************)
(* FanSpec: one getDashboardData request against a drawn Store, step by    *)
(* step: the aggregates are issued, answer in any order the awaits allow,  *)
(* and the response is sent.                                               *)
(***************************************************************************)
FanNext ==
  \/ Fresh /\ DashboardBegins
  \/ \E calculator \in Calculators,
        statusOrder \in Orderings({tasks[id].status : id \in DOMAIN tasks}),
        projectOrder \in Orderings(DOMAIN projects),
        feedOrder \in FeedOrders(DefaultDays) :
       CalculatorCompletes(calculator, statusOrder, projectOrder, feedOrder)
  \/ \E step \in 2..Len(Awaited) : DashboardResumes(step)
  \/ DashboardResponds

FanSpec == BulkInit /\ [][FanNext]_vars

(***************************************************************************)
(* SeedSpec: up to MaxSeeders seedDatabase requests against a drawn Store, *)
(* which may be empty, each taken await by await.                          *)
(***************************************************************************)
SeedNext ==
  \/ SeedBegins
  \/ \E r \in 1..MaxSeeders : SeedCounts(r)
  \/ \E r \in 1..MaxSeeders : SeedInsertsProjects(r)
  \/ \E r \in 1..MaxSeeders : SeedInsertsTasks(r)

SeedSpec == BulkInit /\ [][SeedNext]_vars

(***************************************************************************)
(* SkewSpec: one getDashboardData request against a drawn Store, step by   *)
(* step, while the clock advances and other clients' bulkUpdateTasks       *)
(* requests write between its Store calls.                                 *)
(***************************************************************************)
\* The bulk operations the other clients send: a delete and a completion.
InterleavedUpdates ==
  {u \in BulkUpdates :
     \/ u.operation = "delete" /\ u.hasUpdates
     \/ u.operation = "update-status" /\ u.payload = "completed"}

SkewInit ==
  /\ now = 0
  /\ projects = <<>>
  /\ \E present \in SUBSET TaskIds : tasks \in [present -> PriorityTasks]
  /\ nextTaskId = MaxTasks + 1
  /\ nextProjectId = MaxProjects + 1
  /\ req = NoReq
  /\ res = NoRes
  /\ calls = NoCalls

SkewNext ==
  \/ Fresh /\ DashboardBegins
  \/ \E calculator \in Calculators,
        statusOrder \in Orderings({tasks[id].status : id \in DOMAIN tasks}),
        feedOrder \in FeedOrders(DefaultDays) :
       CalculatorCompletes(calculator, statusOrder, <<>>, feedOrder)
  \/ \E step \in 2..Len(Awaited) : DashboardResumes(step)
  \/ DashboardResponds
  \/ \E u \in InterleavedUpdates :
       InterleavedBulkUpdate(BulkBody([taskIdsKind |-> "array", taskIds |-> <<1>>], u))
  \/ Tick

SkewSpec == SkewInit /\ [][SkewNext]_vars

(***************************************************************************)
(* RollupSpec: one getDashboardData request against a drawn Store whose    *)
(* Tasks differ in status and hours and whose Projects differ in status    *)
(* and completedDate (updateProject stores either without the other).      *)
(***************************************************************************)
RollupTasks ==
  {d \in [status: StatusInputs,
          priority: {DefaultPriority},
          project: {NoProject},
          completedDate: {Undefined, 0},
          estimatedHours: {Undefined} \cup 0..MaxHours,
          actualHours: {Undefined} \cup 0..MaxHours,
          dueDate: {Undefined},
          updatedAt: {0}] :
     /\ (d.completedDate # Undefined) <=> (d.status = "completed")
     /\ <<d.estimatedHours, d.actualHours>> \in DrawnHours}

RollupProjects ==
  [status: {DefaultProjectStatus} \cup ProjectStatusInputs,
   startDate: {0},
   dueDate: {Undefined},
   completedDate: {Undefined} \cup Times]

RollupInit ==
  /\ now = MaxTime
  /\ \E present \in SUBSET ProjectIds : projects \in [present -> RollupProjects]
  /\ \E present \in SUBSET TaskIds : tasks \in [present -> RollupTasks]
  /\ nextTaskId = MaxTasks + 1
  /\ nextProjectId = MaxProjects + 1
  /\ req = NoReq
  /\ res = NoRes
  /\ calls = NoCalls

RollupNext ==
  Fresh /\ \E statusOrder \in Orderings({tasks[id].status : id \in DOMAIN tasks}) :
             GetDashboardData(statusOrder,
                              CHOOSE o \in Orderings(DOMAIN projects) :
                                SortedByDueDate(o))

RollupSpec == RollupInit /\ [][RollupNext]_vars

(***************************************************************************)
(* ProjectSpec: one deleteProject request against a drawn Store whose      *)
(* Tasks differ in the Project they reference.                             *)
(***************************************************************************)
ProjectTasks ==
  [status: {DefaultStatus},
   priority: {DefaultPriority},
   project: {NoProject} \cup ProjectIds,
   completedDate: {Undefined},
   estimatedHours: {Undefined},
   actualHours: {Undefined},
   dueDate: {Undefined},
   updatedAt: {0}]

ProjectInit ==
  /\ now = MaxTime
  /\ \E present \in SUBSET ProjectIds : projects \in [present -> DrawnProjects]
  /\ \E present \in SUBSET TaskIds : tasks \in [present -> ProjectTasks]
  /\ nextTaskId = MaxTasks + 1
  /\ nextProjectId = MaxProjects + 1
  /\ req = NoReq
  /\ res = NoRes
  /\ calls = NoCalls

ProjectNext ==
  Fresh /\ \E id \in ProjectIds, deleteTasks \in BOOLEAN :
             DeleteProject(id, deleteTasks)

ProjectSpec == ProjectInit /\ [][ProjectNext]_vars

(***************************************************************************)
(* TimeoutSpec: one getDashboardData or bulkUpdateTasks request against a  *)
(* drawn Store, step by step, with the timeout of requestTimeout firing    *)
(* at any await.                                                           *)
(***************************************************************************)
TimeoutNext ==
  \/ Fresh /\ DashboardBegins
  \/ \E calculator \in Calculators,
        statusOrder \in Orderings({tasks[id].status : id \in DOMAIN tasks}),
        projectOrder \in Orderings(DOMAIN projects),
        feedOrder \in FeedOrders(DefaultDays) :
       CalculatorCompletes(calculator, statusOrder, projectOrder, feedOrder)
  \/ \E step \in 2..Len(Awaited) : DashboardResumes(step)
  \/ DashboardResponds
  \/ \E calculator \in Calculators : DashboardFails(calculator)
  \/ Fresh /\ \E i \in SampleTaskIds, u \in SampleUpdates,
                  done \in SUBSET TaskIds, failed \in BOOLEAN :
                BulkAwaits(BulkBody(i, u), done, failed)
  \/ BulkResumes
  \/ RequestTimeout

TimeoutSpec == BulkInit /\ [][TimeoutNext]_vars

(***************************************************************************)
(* EngineSpec: one request of any of the three handlers of the dashboard   *)
(* controller against a drawn Store, answered or failed by the Store.      *)
(***************************************************************************)
EngineNext ==
  \/ Fresh /\ \E statusOrder \in Orderings({tasks[id].status : id \in DOMAIN tasks}),
                  projectOrder \in Orderings(DOMAIN projects),
                  days \in {0, DefaultDays} :
                \E feedOrder \in FeedOrders(days) :
                  GetDashboardDataFor(statusOrder, projectOrder, feedOrder, days, 0)
  \/ Fresh /\ \E failing \in 1..DashboardCalls :
                GetDashboardDataStoreError(failing)
  \/ Fresh /\ \E type \in ReportTypes \cup {Bogus}, format \in {"json", "csv"},
                  range \in {NoRange, [from |-> 0, to |-> Undefined]} :
                \E order \in ReportOrders(type, range) :
                  GenerateReportFor(type, format, range, order)
  \/ Fresh /\ \E type \in ReportTypes, format \in {"json", "csv"} :
                GenerateReportStoreError(type, format)
  \/ Fresh /\ \E i \in SampleTaskIds, u \in BulkUpdates :
                BulkUpdateTasks(BulkBody(i, u))
  \/ Fresh /\ \E i \in SampleTaskIds, u \in BulkUpdates, done \in SUBSET TaskIds :
                BulkUpdateTasksStoreError(BulkBody(i, u), done)

EngineSpec == BulkInit /\ [][EngineNext]_vars

(***************************************************************************)
(* Properties.                                                             *)
(***************************************************************************)
\* The last request was a bulkUpdateTasks that reached its batch call.
Validated(q) ==
  /\ q.kind = "bulkUpdateTasks"
  /\ q.taskIdsKind = "array" /\ Len(q.taskIds) > 0
  /\ q.operation \in {"update-status", "update-priority", "assign-project", "delete"}
  /\ q.operation # "delete" => q.hasUpdates /\ q.hasField

\* The identifiers of the request that exist in the Store.
Existing(q, coll) == Range(q.taskIds) \cap DOMAIN coll

\* C1: every stored Task has completedDate set if and only if its status is
\* completed.
C1_CompletedDateIffCompleted ==
  \A id \in DOMAIN tasks :
    (tasks[id].completedDate # Undefined) <=> (tasks[id].status = "completed")

\* C2: every stored Task's status is one of todo, in-progress, review,
\* completed, cancelled and its priority one of low, medium, high, urgent.
C2_EnumsHold ==
  \A id \in DOMAIN tasks :
    /\ tasks[id].status \in {"todo", "in-progress", "review", "completed", "cancelled"}
    /\ tasks[id].priority \in {"low", "medium", "high", "urgent"}

\* C3: a bulkUpdateTasks request that passes validation, the Store answering,
\* returns a number affectedCount <= len(taskIds), and returns 0 in a success
\* response when none of the identifiers exist.
C3_AffectedCountBounded ==
  [][(Validated(req') /\ res' # StoreError) =>
       /\ res'.data.affectedCount \in 0..Len(req'.taskIds)
       /\ Existing(req', tasks) = {} =>
            res'.code = 200 /\ res'.data.affectedCount = 0]_vars

\* C4: for each of the four operations affectedCount is the number of the
\* supplied identifiers that exist in the Store when the batch call runs.
C4_AffectedCountIsExisting ==
  [][(Validated(req') /\ res' # StoreError) =>
       /\ res'.code = 200
       /\ res'.data.affectedCount = Cardinality(Existing(req', tasks))]_vars

\* C5: bulkUpdateTasks answers 400 and leaves the Store unchanged when
\* taskIds is missing, not an array or empty, or when the operation is
\* update-status, update-priority or assign-project and its payload field is
\* absent, the updates object being absent included.
C5_Rejects(q) ==
  /\ q.kind = "bulkUpdateTasks"
  /\ \/ q.taskIdsKind # "array"
     \/ Len(q.taskIds) = 0
     \/ /\ q.operation \in {"update-status", "update-priority", "assign-project"}
        /\ ~(q.hasUpdates /\ q.hasField)

C5_InvalidInputRejected ==
  /\ [](C5_Rejects(req) => res.code = 400)
  /\ [][C5_Rejects(req') => UNCHANGED <<tasks, projects>>]_vars

\* C6 as stated: an unrecognized operation of bulkUpdateTasks and an
\* unrecognized type of generateReport are answered 400 with a message that
\* lists the valid set, and no Store call is made.
C6_UnknownBulkOperation(q) ==
  /\ q.kind = "bulkUpdateTasks"
  /\ q.operation \notin {"update-status", "update-priority", "assign-project", "delete"}

C6_UnknownReportType(q) ==
  /\ q.kind = "generateReport"
  /\ q.type \notin {"productivity", "project-performance", "time-tracking"}

C6_Original ==
  /\ C6_UnknownBulkOperation(req) =>
       /\ res.code = 400
       /\ res.message =
            "Supported operations: update-status, update-priority, assign-project, delete"
       /\ calls = NoCalls
  /\ C6_UnknownReportType(req) =>
       /\ res.code = 400
       /\ res.message =
            "Available types: productivity, project-performance, time-tracking"
       /\ calls = NoCalls

\* C6 amended: an unrecognized selector is answered 400 and no Store call is
\* made; the message lists the valid set for generateReport, and for
\* bulkUpdateTasks when taskIds is a non-empty array (otherwise the message
\* is the one of the taskIds check).
C6_UnknownSelectorRejected ==
  /\ C6_UnknownBulkOperation(req) =>
       /\ res.code = 400
       /\ calls = NoCalls
       /\ IF req.taskIdsKind = "array" /\ Len(req.taskIds) > 0
            THEN res.message =
              "Supported operations: update-status, update-priority, assign-project, delete"
            ELSE res.message = "taskIds array is required"
  /\ C6_UnknownReportType(req) =>
       /\ res.code = 400
       /\ res.message =
            "Available types: productivity, project-performance, time-tracking"
       /\ calls = NoCalls

C6_Witness ==
  /\ C6_UnknownBulkOperation(req)
  /\ req.taskIdsKind = "array" /\ Len(req.taskIds) = 2
  /\ Existing(req, tasks) # {}
  /\ res = InvalidOperation

\* C7: a bulkUpdateTasks request that passes validation issues exactly one
\* Store write call whatever the number of identifiers, and a request
\* answered 400 issues none.
C7_OneBatchCall ==
  req.kind = "bulkUpdateTasks" =>
    /\ Validated(req) => calls.writes = 1
    /\ res.code = 400 => calls.writes = 0

C7_Witness ==
  /\ Validated(req)
  /\ Len(req.taskIds) = 2 /\ req.taskIds[1] # req.taskIds[2]
  /\ res.code = 200 /\ res.data.affectedCount = 2
  /\ calls.writes = 1

\* C8: when the Store fails during the batch call, it is never the case that
\* some existing targeted Tasks were modified or deleted while other existing
\* targeted Tasks were not.
C8_Applied(id) == id \notin DOMAIN tasks' \/ tasks'[id] # tasks[id]

\* an update stamps updatedAt with the clock: a Task left as it was, and not
\* stamped with the clock before, was not reached by the batch call
C8_NotApplied(id) ==
  /\ id \in DOMAIN tasks' /\ tasks'[id] = tasks[id]
  /\ req'.operation = "delete" \/ tasks[id].updatedAt # now

C8_BatchIsAUnit ==
  [][(Validated(req') /\ res' = StoreError) =>
       ~\E a, b \in Existing(req', tasks) : C8_Applied(a) /\ C8_NotApplied(b)]_vars

\* The response is a dashboard payload.
Dashboard == req.kind = "getDashboardData" /\ res.code = 200

\* a percentage within [0, 100] that is a number
C9_Percentage(x) == ~x.nan /\ 0 <= x.tenths /\ x.tenths <= 1000

\* C9: completionRate and timeAccuracy are within [0, 100], and are 0 when
\* their denominator (the number of Tasks, the estimated hours) is 0.
C9_RatesDefined ==
  Dashboard =>
    LET insights == res.data.performanceInsights
    IN /\ C9_Percentage(insights.completionRate)
       /\ C9_Percentage(insights.timeAccuracy)
       /\ DOMAIN tasks = {} => insights.completionRate = Number(0)
       /\ (\A id \in DOMAIN tasks : tasks[id].estimatedHours \in {Undefined, 0})
            => insights.timeAccuracy = Number(0)

\* C10: every row of the Project Progress Rollup has progressPercentage
\* within [0, 100], and 0 when totalTasks = 0.
C10_ProgressWithinRange ==
  Dashboard =>
    \A i \in DOMAIN res.data.projectProgress :
      LET row == res.data.projectProgress[i]
          p == row.progressPercentage
      IN /\ p.den > 0
         /\ 0 <= p.num /\ p.num <= 100 * p.den
         /\ row.totalTasks = 0 => p.num = 0

C10_Witness ==
  /\ Dashboard
  /\ \E i, j \in DOMAIN res.data.projectProgress :
       /\ res.data.projectProgress[i].totalTasks = 0
       /\ res.data.projectProgress[i].progressPercentage = Ratio(0, 1)
       /\ res.data.projectProgress[j].totalTasks = 2
       /\ res.data.projectProgress[j].progressPercentage = Ratio(100, 2)

\* C11: the Project Progress Rollup has exactly one row per stored Project,
\* also for a Project no Task references (then totalTasks = 0,
\* completedTasks = 0 and progressPercentage = 0); totalTasks is the number
\* of Tasks referencing the Project, completedTasks the number of those with
\* status completed, and completedTasks <= totalTasks.
C11_OuterJoin ==
  Dashboard =>
    LET rows == res.data.projectProgress
    IN /\ Cardinality(DOMAIN rows) = Cardinality(DOMAIN projects)
       /\ \A pid \in DOMAIN projects : \E i \in DOMAIN rows : rows[i]._id = pid
       /\ \A i \in DOMAIN rows :
            LET linked == {id \in DOMAIN tasks : tasks[id].project = rows[i]._id}
            IN /\ rows[i].totalTasks = Cardinality(linked)
               /\ rows[i].completedTasks =
                    Cardinality({id \in linked : tasks[id].status = "completed"})
               /\ rows[i].completedTasks <= rows[i].totalTasks
               /\ linked = {} =>
                    /\ rows[i].totalTasks = 0 /\ rows[i].completedTasks = 0
                    /\ rows[i].progressPercentage = Ratio(0, 1)

C11_Witness ==
  /\ Dashboard
  /\ \E id \in DOMAIN tasks : tasks[id].project = NoProject
  /\ \E i, j \in DOMAIN res.data.projectProgress :
       /\ res.data.projectProgress[i].totalTasks = 0
       /\ res.data.projectProgress[j].totalTasks = 1
       /\ res.data.projectProgress[j].completedTasks = 1

\* C13: every priority carried by a Task appears exactly once in the
\* Priority x Status cross-tab, and for each priority the counts of its
\* statusBreakdown add up to its total, which is the number of Tasks with
\* that priority.
C13_CrossTabTotals ==
  Dashboard =>
    LET rows == res.data.priorityDistribution
    IN /\ \A id \in DOMAIN tasks :
            Cardinality({r \in rows : r._id = tasks[id].priority}) = 1
       /\ \A r \in rows :
            /\ Sum([c \in r.statusBreakdown |-> c.count], r.statusBreakdown) = r.total
            /\ r.total = Cardinality({id \in DOMAIN tasks : tasks[id].priority = r._id})

C13_Witness ==
  /\ Dashboard
  /\ \E r \in res.data.priorityDistribution :
       r.total = 2 /\ Cardinality(r.statusBreakdown) = 1
  /\ \E id \in DOMAIN tasks : tasks[id].priority # DefaultPriority

\* The instant at which the last dashboard request read the clock first.
RequestedAt == res.data.timeRange.startDate + res.data.timeRange.days

\* The Tasks the Overdue Analysis is about.
C14_Overdue ==
  {id \in DOMAIN tasks :
     /\ tasks[id].dueDate # Undefined /\ tasks[id].dueDate < RequestedAt
     /\ tasks[id].status \notin {"completed", "cancelled"}}

\* C14: the average overdue age of every priority bucket of the Overdue
\* Analysis is >= 0, a bucket counts the Tasks of its priority with dueDate
\* before now and status neither completed nor cancelled, and there is no
\* bucket when no Task satisfies that filter.
C14_OverdueAges ==
  Dashboard =>
    LET rows == res.data.overdueAnalysis
    IN /\ \A r \in rows :
            /\ r.avgOverdueDays.den > 0 /\ r.avgOverdueDays.num >= 0
            /\ r.count = Cardinality({id \in C14_Overdue : tasks[id].priority = r._id})
            /\ r.count > 0
       /\ \A id \in C14_Overdue : \E r \in rows : r._id = tasks[id].priority
       /\ C14_Overdue = {} => rows = {}

C14_Witness ==
  /\ Dashboard
  /\ now > RequestedAt
  /\ \E r \in res.data.overdueAnalysis : r.count = 1 /\ r.avgOverdueDays.num > 1
  /\ \E id \in DOMAIN tasks :
       /\ tasks[id].dueDate # Undefined /\ tasks[id].dueDate < RequestedAt
       /\ tasks[id].status = "completed"

\* C17: every entry of the Recent Activity Feed carries a projectName, the
\* name of the referenced Project when it is stored and the empty string
\* when the Task references no Project or one that is not stored; the feed
\* has at most 20 entries, sorted by updatedAt descending.
C17_FeedProjectNames ==
  Dashboard =>
    LET feed == res.data.recentActivity
    IN /\ Len(feed) <= 20
       /\ \A i, j \in DOMAIN feed : i < j => feed[i].updatedAt >= feed[j].updatedAt
       /\ \A i \in DOMAIN feed :
            feed[i].projectName =
              IF tasks[feed[i]._id].project \in DOMAIN projects
                THEN Name(tasks[feed[i]._id].project)
                ELSE Name(0)

\* C18: with at least one Task stored, completionRate is the number of
\* completed Tasks over the number of Tasks, times 100, rounded to one
\* decimal place (no value with one decimal is nearer); the counts
\* {todo: 1, completed: 2} give 66.7.
C18_CompletionRateRounded ==
  (Dashboard /\ DOMAIN tasks # {}) =>
    LET completed == Cardinality({id \in DOMAIN tasks : tasks[id].status = "completed"})
        total == Cardinality(DOMAIN tasks)
        rate == res.data.performanceInsights.completionRate
        error == 1000 * completed - rate.tenths * total
    IN /\ ~rate.nan
       /\ 2 * error <= total /\ -2 * error <= total
       /\ (completed = 2 /\ total = 3) => rate = Number(667)

C18_Witness ==
  /\ Dashboard
  /\ Cardinality({id \in DOMAIN tasks : tasks[id].status = "completed"}) = 2
  /\ Cardinality({id \in DOMAIN tasks : tasks[id].status = "todo"}) = 1
  /\ Cardinality(DOMAIN tasks) = 3
  /\ res.data.performanceInsights.completionRate = Number(667)

\* The last request asked for the report `type` in the format `format`.
Reported(type, format) ==
  req.kind = "generateReport" /\ req.type = type /\ req.format = format

\* C12: a time-tracking report does not fail because of a Task whose
\* estimatedHours is 0, has no row for such a Task and no variancePercent
\* with a zero divisor.
C12_ZeroEstimateExcluded ==
  /\ (req.kind = "generateReport" /\ req.type = "time-tracking") => res.code = 200
  /\ (Reported("time-tracking", "json") /\ res.code = 200) =>
       \A r \in DOMAIN res.data.data :
         /\ tasks[res.data.data[r][1].value].estimatedHours # 0
         /\ res.data.data[r][5].value.den # 0

\* C15: the CSV text of a non-empty list of records is a header line with
\* the keys of the first record in their order, then one line per record in
\* input order with the values in the header's order, the lines separated
\* by a line break; the text of an empty list is empty.
C15_CsvLines ==
  (req.kind = "generateReport" /\ req.format = "csv" /\ res.code = 200) =>
    \E order \in ReportOrders(req.type, req.range) :
      LET data == reportData(req.type, req.range, order)
          text == res.data.body
      IN IF Len(data) = 0 THEN text.lines = <<>>
         ELSE /\ text.separator = LineBreak
              /\ Len(text.lines) = 1 + Len(data)
              /\ text.lines[1] = [i \in DOMAIN data[1] |-> data[1][i].key]
              /\ \A r \in DOMAIN data : \A i \in DOMAIN data[r] :
                   text.lines[r + 1][i] = data[r][i].value

\* C16: the productivity report has no row for the Tasks without
\* completedDate, with or without a date range; its tasksCompleted add up
\* to the number of Tasks completed within the range; it has one row per
\* (year, week), sorted by year then week.
C16_CompletedOnly ==
  (Reported("productivity", "json") /\ res.code = 200) =>
    LET rows == res.data.data
        inRange == {id \in DOMAIN tasks :
                      /\ tasks[id].completedDate # Undefined
                      /\ InRange(tasks[id].completedDate, req.range)}
    IN /\ \A r \in DOMAIN rows : rows[r][1].value.week # Undefined
       /\ Sum([r \in DOMAIN rows |-> rows[r][2].value], DOMAIN rows)
            = Cardinality(inRange)
       /\ \A q, r \in DOMAIN rows :
            q < r => \/ rows[q][1].value.year < rows[r][1].value.year
                     \/ /\ rows[q][1].value.year = rows[r][1].value.year
                        /\ rows[q][1].value.week < rows[r][1].value.week

C19_FanOutThenJoin ==
  req.kind = "getDashboardData" =>
    /\ req.completed # {} => req.started = Calculators
    /\ res.code = 200 => req.completed = Calculators

\* C21: a getDashboardData or generateReport request leaves the Task and
\* Project collections as they were and issues no write call, whatever its
\* parameters and whether the Store answers or fails; the only request of
\* the engine that writes is bulkUpdateTasks, by its one batch call.
C21_ReadsNeverWrite ==
  [][/\ req'.kind \in {"getDashboardData", "generateReport"} =>
          /\ tasks' = tasks /\ projects' = projects
          /\ nextTaskId' = nextTaskId /\ nextProjectId' = nextProjectId
          /\ calls'.writes = 0
     /\ (calls'.writes > 0 \/ tasks' # tasks \/ projects' # projects) =>
          /\ req'.kind = "bulkUpdateTasks"
          /\ calls'.writes = 1]_vars

C21_Witness ==
  /\ req.kind = "getDashboardData"
  /\ res.code = 200
  /\ res.data.recentActivity # <<>>
  /\ DOMAIN projects # {}
  /\ calls = [reads |-> DashboardCalls, writes |-> 0]

\* C22: once a getDashboardData request has timed out (the 408 was sent
\* while its calculators were in flight), no Store call is issued for it any
\* more and the Store stays as it is.
C22_AbandonedAfterTimeout ==
  [][(req.kind = "getDashboardData" /\ res.code = 408) =>
       /\ calls' = calls
       /\ tasks' = tasks /\ projects' = projects]_vars

C23_CascadeOnlyOnRequest ==
  [][req'.kind = "deleteProject" =>
       /\ ~req'.hasUpdates => tasks' = tasks
       /\ (~req'.hasUpdates /\ TasksOfProject(req'.id) # {}) =>
            /\ projects' = projects
            /\ res'.code = 409
       /\ \A id \in DOMAIN tasks :
            \/ id \in DOMAIN tasks' /\ tasks'[id] = tasks[id]
            \/ req'.hasUpdates /\ tasks[id].project = req'.id]_vars

C23_Witness ==
  /\ req.kind = "deleteProject"
  /\ ~req.hasUpdates
  /\ res.code = 409
  /\ req.id \in DOMAIN projects
  /\ TasksOfProject(req.id) # {}

\* C24: the Overdue Analysis is computed from one reading of the clock: its
\* buckets are those that some single instant between the request and the
\* response yields for both the filter and the ages, however far the clock
\* advanced in between.
C24_ClockReadOnce ==
  Dashboard =>
    \E at \in RequestedAt..now :
      res.data.overdueAnalysis = overdueAnalysis(at, at)

\* C25: in the status rollups a conditional average is taken over the
\* entities satisfying its predicate only: avgVariance of a Task bucket is
\* the mean of actualHours - estimatedHours over the Tasks of the status
\* having both fields, avgDuration of a Project bucket the mean of
\* completedDate - startDate over the Projects of the status having both
\* dates (and no value when there is none).
C25_ConditionalAverages ==
  Dashboard =>
    /\ \A i \in DOMAIN res.data.taskStats :
         LET b == res.data.taskStats[i]
             both == {id \in DOMAIN tasks :
                        /\ tasks[id].status = b._id
                        /\ tasks[id].estimatedHours # Undefined
                        /\ tasks[id].actualHours # Undefined}
         IN both # {} =>
              b.avgVariance.num * Cardinality(both) =
                b.avgVariance.den
                  * (Sum([id \in both |-> tasks[id].actualHours], both)
                       - Sum([id \in both |-> tasks[id].estimatedHours], both))
    /\ \A b \in res.data.projectStats :
         LET both == {id \in DOMAIN projects :
                        /\ projects[id].status = b._id
                        /\ projects[id].startDate # Undefined
                        /\ projects[id].completedDate # Undefined}
         IN IF both = {} THEN b.avgDuration = Null
            ELSE b.avgDuration.num * Cardinality(both) =
                   b.avgDuration.den
                     * (Sum([id \in both |-> projects[id].completedDate], both)
                          - Sum([id \in both |-> projects[id].startDate], both))

\* C26: the figures of one dashboard response agree: overview.totalTasks
\* is the sum of the counts of taskStats and overview.overdueCount the sum
\* of the counts of overdueAnalysis, whatever writes and clock advances
\* came between the Store reads of the request.
C26_FiguresAgree ==
  Dashboard =>
    LET data == res.data
    IN /\ data.overview.totalTasks =
            Sum([i \in DOMAIN data.taskStats |-> data.taskStats[i].count],
                DOMAIN data.taskStats)
       /\ data.overview.overdueCount =
            Sum([r \in data.overdueAnalysis |-> r.count], data.overdueAnalysis)

\* The field of a Task that a bulk operation names.
C27_NamedField(operation) ==
  CASE operation = "update-status" -> {"status"}
    [] operation = "update-priority" -> {"priority"}
    [] operation = "assign-project" -> {"project"}
    [] OTHER -> {}

C28_NoDanglingReference ==
  \A id \in DOMAIN tasks :
    tasks[id].project \in {NoProject} \cup DOMAIN projects

\* C30: seedDatabase inserts into an empty Store only.  When the Store held
\* a Project or a Task before the seedDatabase requests, every one of them
\* answers 400 and inserts nothing; when it was empty and every request
\* that arrived has returned, the sample data is in the Store once: as many
\* Projects as sampleProjects has, and tasksPerProject Tasks referencing
\* each of them.
C30_SeededOnce ==
  LET seeders == req.seeders
      wasEmpty == DOMAIN projects \cap ProjectIds = {} /\ DOMAIN tasks \cap TaskIds = {}
  IN (req.kind = "seedDatabase" /\ \A r \in DOMAIN seeders : seeders[r].awaiting = 0) =>
       IF wasEmpty
         THEN /\ Cardinality(DOMAIN projects) = Len(sampleProjects)
              /\ Cardinality(DOMAIN tasks) = Len(sampleProjects) * tasksPerProject
              /\ \A p \in DOMAIN projects :
                   Cardinality(TasksOfProject(p)) = tasksPerProject
         ELSE /\ DOMAIN projects \subseteq ProjectIds
              /\ DOMAIN tasks \subseteq TaskIds
              /\ \A r \in DOMAIN seeders : seeders[r].code = 400

====
